---- MODULE Spec2Model ----
(***************************************************************************)
(* Verification model of bundle_adjust/rpc_utils.py.                       *)
(*                                                                         *)
(* Real numbers are fixed-point integers: a height is a whole number of    *)
(* 1/HScale metres, a pixel coordinate a whole number of 1/PScale pixels.  *)
(* A floating-point value is a record [nan, v]: nan = TRUE is IEEE NaN     *)
(* (v is then 0), otherwise v is the fixed-point number.  Arithmetic on    *)
(* values propagates NaN the way numpy's does.                             *)
(***************************************************************************)
EXTENDS Integers, Sequences, FiniteSets, TLC

VARIABLES
    \* ---- compute_height ----
    cam,        \* the pair (model_a, model_b), as the correspondence it induces
    pts,        \* the batch: sequence of [x1, y1, x2, y2]
    h0,         \* heights, one value per point
    h0_inc,     \* last height increments
    err,        \* last residuals
    i,          \* number of loop iterations executed so far
    pc,         \* "loop", "returned" (return h0, err), "raised" (exception)
    alone,      \* per point, the same call made on that point alone
    \* ---- the module's shared configuration and its other operations ----
    cfg,        \* s2p.config.cfg, the entries this module reads or writes
    call,       \* the last call of a one-step operation, with its arguments
    ret,        \* what that call returned, or the exception it raised
    out,        \* the lines printed so far
    th          \* the callers of roi_process: one record per thread

vars == <<cam, pts, h0, h0_inc, err, i, pc, alone, cfg, call, ret, out, th>>

-----------------------------------------------------------------------------
(* Fixed-point scales and floating-point values *)

HScale == 10 * 100      \* height units per metre (1 unit = 1 mm)
PScale == 10 * 10       \* pixel units per pixel (1 unit = 0.01 px)

NaN == [nan |-> TRUE, v |-> 0]
Num(n) == [nan |-> FALSE, v |-> n]
IsNaN(a) == a.nan

Abs(n) == IF n < 0 THEN -n ELSE n

\* n / d rounded to the nearest unit (d > 0)
RDiv(n, d) == (2 * n + d) \div (2 * d)

Add(a, b) == IF a.nan \/ b.nan THEN NaN ELSE Num(a.v + b.v)
Sub(a, b) == IF a.nan \/ b.nan THEN NaN ELSE Num(a.v - b.v)
\* raw product, in units of the product of the two operands' units
Mul(a, b) == IF a.nan \/ b.nan THEN NaN ELSE Num(a.v * b.v)
Fabs(a) == IF a.nan THEN NaN ELSE Num(Abs(a.v))

RECURSIVE ISqrtIn(_, _, _)
ISqrtIn(n, lo, hi) ==
    IF lo >= hi THEN lo
    ELSE LET mid == (lo + hi + 1) \div 2
         IN IF mid * mid <= n THEN ISqrtIn(n, mid, hi) ELSE ISqrtIn(n, lo, mid - 1)
ISqrt(n) == ISqrtIn(n, 0, 40000)

SeqOf(n, x) == [k \in 1..n |-> x]

\* SumVals keeping only the last term
SumVals_last(t, n) == IF n = 0 THEN Num(0) ELSE t[n]

RECURSIVE SumVals(_, _)
\* left-to-right floating-point sum of t[1..n]
SumVals(t, n) == IF n = 0 THEN Num(0) ELSE Add(SumVals(t, n - 1), t[n])

\* a height (or a pure ratio in height units) times a pixel quantity, in pixel units
MulHP(hv, p) == IF hv.nan \/ p.nan THEN NaN ELSE Num(RDiv(hv.v * p.v, HScale))

\* np.sqrt of a squared pixel length
Sqrt(a) == IF a.nan THEN NaN ELSE Num(ISqrt(a.v))

\* np.divide(diagabdot, diagaadot), as a height increment.  A zero divisor
\* means a = (0, 0), hence a zero dividend: 0/0 is NaN.
Divide(n, d) ==
    IF n.nan \/ d.nan THEN NaN
    ELSE IF d.v = 0 THEN NaN
    ELSE Num(RDiv(n.v * HScale, d.v))

-----------------------------------------------------------------------------
(* Camera models (external collaborators): a model is                       *)
(* [lo, hi, sy, graded]: its column parallax grows by lo pixels per metre   *)
(* of altitude up to Kink and by hi pixels per metre above it, its row      *)
(* parallax by sy pixels per metre; a graded model scales the column        *)
(* parallax by the ground column, so that column 0 is insensitive to        *)
(* altitude.                                                                *)

Kink == (3 * HScale) \div 2

Nadir == [lo |-> 0, hi |-> 0, sy |-> 0, graded |-> FALSE,
          alt_offset |-> 20 * HScale, alt_scale |-> 10 * HScale]
Tilted == [lo |-> 1, hi |-> 1, sy |-> 0, graded |-> FALSE,
           alt_offset |-> 30 * HScale, alt_scale |-> 20 * HScale]
Oblique == [lo |-> 2, hi |-> 2, sy |-> 1, graded |-> FALSE,
            alt_offset |-> 20 * HScale, alt_scale |-> 10 * HScale]
Kinked == [lo |-> 1, hi |-> 3, sy |-> 0, graded |-> FALSE,
           alt_offset |-> 20 * HScale, alt_scale |-> 10 * HScale]
Graded == [lo |-> 1, hi |-> 1, sy |-> 0, graded |-> TRUE,
           alt_offset |-> 20 * HScale, alt_scale |-> 10 * HScale]
\* the stereo pairs (model_a, model_b); Tilted and Kinked see the ground
\* below Kink along the same direction
Cams == {[a |-> Nadir, b |-> Oblique], [a |-> Nadir, b |-> Kinked],
         [a |-> Nadir, b |-> Graded], [a |-> Tilted, b |-> Oblique],
         [a |-> Tilted, b |-> Kinked]}

Ramp(m, z) == IF z <= Kink THEN m.lo * z ELSE m.lo * Kink + m.hi * (z - Kink)
ParX(m, z, col) ==
    RDiv(PScale * (IF m.graded THEN col ELSE 1) * Ramp(m, z), HScale)
ParY(m, z) == RDiv(PScale * m.sy * z, HScale)

\* model.localization(x, y, z) -> (lon, lat), for a model that is not graded
Localization(m, x, y, z) ==
    IF x.nan \/ y.nan \/ z.nan THEN <<NaN, NaN>>
    ELSE <<Num(x.v - ParX(m, z.v, 1)), Num(y.v - ParY(m, z.v))>>

\* model.projection(lon, lat, z) -> (col, row)
Projection(m, lon, lat, z) ==
    IF lon.nan \/ lat.nan \/ z.nan THEN <<NaN, NaN>>
    ELSE <<Num(lon.v + ParX(m, z.v, lon.v \div PScale)), Num(lat.v + ParY(m, z.v))>>

\* find_corresponding_point, for one element of the arrays: (xp, yp)
find_corresponding_point(model_a, model_b, x, y, z) ==
    LET t == Localization(model_a, x, y, z)
    IN Projection(model_b, t[1], t[2], z)

-----------------------------------------------------------------------------
(* The shared configuration, and the state of the parts that are not running *)

None == [kind |-> "None"]

\* s2p.config.cfg as this module finds it before any ROI was processed
DefaultCfg ==
    [exogenous_dem |-> "None", exogenous_dem_geoid_mode |-> FALSE,
     rpc_alt_range_scale_factor |-> 1, utm_zone |-> None, utm_bbx |-> None]

NoCall == call = [op |-> "None"] /\ ret = None /\ out = <<>>
NoThreads == <<>>
NoHeight ==
    /\ cam = None /\ pts = <<>> /\ h0 = <<>> /\ h0_inc = <<>> /\ err = <<>>
    /\ i = 0 /\ pc = "idle" /\ alone = <<>>

-----------------------------------------------------------------------------
(* compute_height *)

HSTEP == 1
MaxIter == 100

\* MaxFabsBelow with the NaN increments left out of the maximum (np.nanmax)
MaxFabsBelow_nanmax(inc) ==
    \A k \in 1..Len(inc) : inc[k].nan \/ 1000 * Abs(inc[k].v) < HScale

\* np.max(np.fabs(h0_inc)) < 0.001 for a non-empty array: a NaN anywhere
\* makes the maximum NaN and the comparison False
MaxFabsBelow(inc) ==
    /\ \A k \in 1..Len(inc) : ~inc[k].nan
    /\ \A k \in 1..Len(inc) : 1000 * Abs(inc[k].v) < HScale

\* one pass of the loop body on heights h, lines 191-216: [inc, err, h]
LoopBody(c, p, h) ==
    LET n == Len(p)
        p2 == [k \in 1..n |-> <<Num(p[k].x2), Num(p[k].y2)>>]
        \* lines 210-216, given r0, a and h0_inc
        Residual(r0, a, inc) ==
            LET \* np.dot(np.diag(h0_inc), a): a full matrix product
                diag(j, k) == IF j = k THEN inc[j] ELSE Num(0)
                dot(j, col) == SumVals([k \in 1..n |-> MulHP(diag(j, k), a[k][col])], n)
                Norm(tmp) == [k \in 1..n |->
                    Sqrt(Add(Mul(tmp[k][1], tmp[k][1]), Mul(tmp[k][2], tmp[k][2])))]
                Tmp(q) == [k \in 1..n |-> <<Sub(q[k][1], p2[k][1]), Sub(q[k][2], p2[k][2])>>]
                q == [k \in 1..n |-> <<Add(r0[k][1], dot(k, 1)), Add(r0[k][2], dot(k, 2))>>]
            IN [inc |-> inc,
                err |-> Norm(Tmp(q)),
                h |-> [k \in 1..n |-> Add(h[k], Mul(inc[k], Num(HSTEP)))]]
        \* lines 196-204, given r0 and a
        Increment(r0, a, b) ==
            Residual(r0, a,
                [k \in 1..n |->
                    Divide(Add(Mul(a[k][1], b[k][1]), Mul(a[k][2], b[k][2])),
                           Add(Mul(a[k][1], a[k][1]), Mul(a[k][2], a[k][2])))])
        \* lines 195-196, given r0 and r1
        Differences(r0, r1) ==
            Increment(r0,
                [k \in 1..n |-> <<Sub(r1[k][1], r0[k][1]), Sub(r1[k][2], r0[k][2])>>],
                [k \in 1..n |-> <<Sub(p2[k][1], r0[k][1]), Sub(p2[k][2], r0[k][2])>>])
    IN Differences(
         [k \in 1..n |->
            find_corresponding_point(c.a, c.b, Num(p[k].x1), Num(p[k].y1), h[k])],
         [k \in 1..n |->
            find_corresponding_point(c.a, c.b, Num(p[k].x1), Num(p[k].y1),
                                     Add(h[k], Num(HSTEP * HScale)))])

\* AfterIteration with an unconditional break
AfterIteration_break(inc, n) == IF Len(inc) = 0 THEN "raised" ELSE "returned"

\* where the loop stands after an iteration that was the n-th and gave
\* increments inc, lines 218-219 and the end of range(100); np.max of an
\* empty array raises ValueError
AfterIteration(inc, n) ==
    IF Len(inc) = 0 THEN "raised"
    ELSE IF MaxFabsBelow(inc) \/ n = MaxIter THEN "returned"
    ELSE "loop"

\* the call on one point alone, before its loop and after one more iteration
AloneInit == [h0 |-> Num(0), h0_inc |-> Num(0), err |-> Num(0), i |-> 0, pc |-> "loop"]
AloneIterate(c, p, s) ==
    IF s.pc # "loop" THEN s
    ELSE LET Result(r) ==
                 [h0 |-> r.h[1], h0_inc |-> r.inc[1], err |-> r.err[1], i |-> s.i + 1,
                  pc |-> AfterIteration(r.inc, s.i + 1)]
         IN Result(LoopBody(c, <<p>>, <<s.h0>>))

\* one iteration of "for i in range(100)" on the batch, and on each point alone
Iterate ==
    /\ pc = "loop"
    /\ i < MaxIter
    /\ \E r \in {LoopBody(cam, pts, h0)} :
          /\ h0_inc' = r.inc
          /\ err' = r.err
          /\ h0' = r.h
          /\ i' = i + 1
          /\ pc' = AfterIteration(r.inc, i + 1)
    /\ alone' = [k \in 1..Len(pts) |-> AloneIterate(cam, pts[k], alone[k])]
    /\ UNCHANGED <<cam, pts, cfg, call, ret, out, th>>

MaxBatch == 2
Cols == {0, PScale}
ColShifts == {PScale, 3 * PScale}
RowShifts == {0, 3 * PScale}
Points ==
    {[x1 |-> x, y1 |-> 0, x2 |-> x + dx, y2 |-> dy] :
        x \in Cols, dx \in ColShifts, dy \in RowShifts}
Batches == UNION {[1..n -> Points] : n \in 0..MaxBatch}

\* the state on entry to the loop, lines 183-188
InitHeight ==
    /\ cam \in Cams
    /\ pts \in Batches
    /\ h0 = SeqOf(Len(pts), Num(0))
    /\ h0_inc = h0
    /\ err = SeqOf(Len(pts), Num(0))
    /\ i = 0
    /\ pc = "loop"
    /\ alone = SeqOf(Len(pts), AloneInit)
    /\ cfg = DefaultCfg
    /\ NoCall
    /\ th = NoThreads

NextHeight == Iterate
SpecHeight == InitHeight /\ [][NextHeight]_vars

\* C1 (as claimed): compute_height raises no error on any batch; it returns
\* after at least 1 and at most 100 iterations, before the 100th only when
\* max|h0_inc| < 0.001 held at the end of the last iteration, and it never
\* goes on past an iteration at whose end that test held.
C1_Claim ==
    /\ pc # "raised"
    /\ i <= MaxIter
    /\ pc = "returned" => i >= 1 /\ (i < MaxIter => MaxFabsBelow(h0_inc))
    /\ (pc = "loop" /\ i >= 1) => (i < MaxIter /\ ~MaxFabsBelow(h0_inc))

\* C1, what the code does for a batch of at least one point
C1_NonEmptyBatch == Len(pts) >= 1 => C1_Claim

\* C5 (as claimed): the height and residual returned for a point of a batch
\* are those returned when that point is triangulated alone.
C5_Claim ==
    pc = "returned" =>
        \A k \in 1..Len(pts) :
            /\ alone[k].pc = "returned"
            /\ h0[k] = alone[k].h0
            /\ err[k] = alone[k].err

\* C6 (as claimed): a point that meets a . a = 0 gets a NaN height, no error
\* is raised, and every other point of the batch gets a defined height and a
\* defined residual.  A point meets a . a = 0 exactly when, alone, it ends
\* with a NaN height.
C6_Claim ==
    /\ Len(pts) >= 1 => pc # "raised"
    /\ pc = "returned" =>
          \A k \in 1..Len(pts) :
              IF alone[k].h0.nan
              THEN h0[k].nan
              ELSE ~h0[k].nan /\ ~err[k].nan

-----------------------------------------------------------------------------
(* compute_height on noise-free observations *)

TrueHeights == {0, HScale, (5 * HScale) \div 2, -HScale}

\* the point of image A at (x, y) whose 3D point is at height h, with its
\* noise-free observation in image B; h is kept beside the observation
Observe(c, x, y, h) ==
    [x1 |-> x, y1 |-> y,
     x2 |-> find_corresponding_point(c.a, c.b, Num(x), Num(y), Num(h))[1].v,
     y2 |-> find_corresponding_point(c.a, c.b, Num(x), Num(y), Num(h))[2].v,
     h |-> h]

TruePoints(c) == {Observe(c, x, 0, h) : x \in Cols, h \in TrueHeights}

\* the state on entry to the loop, lines 183-188, for a batch of noise-free
\* observations
InitRoundTrip ==
    /\ cam \in Cams
    /\ pts \in UNION {[1..n -> TruePoints(cam)] : n \in 1..MaxBatch}
    /\ h0 = SeqOf(Len(pts), Num(0))
    /\ h0_inc = h0
    /\ err = SeqOf(Len(pts), Num(0))
    /\ i = 0
    /\ pc = "loop"
    /\ alone = SeqOf(Len(pts), AloneInit)
    /\ cfg = DefaultCfg
    /\ NoCall
    /\ th = NoThreads

SpecRoundTrip == InitRoundTrip /\ [][NextHeight]_vars

\* the image-B position of every point of image A is affine in altitude
Affine(c) == c.a.lo = c.a.hi /\ c.b.lo = c.b.hi
\* no point of the batch has met a . a = 0
NoNaN == \A k \in 1..Len(pts) : ~h0[k].nan /\ ~h0_inc[k].nan
\* every true height is within 0.001 m of the starting height 0
StartsAtTruth == \A k \in 1..Len(pts) : 1000 * Abs(pts[k].h) < HScale

\* the heights are within 1e-3 m of the true heights and the residuals
\* below 1e-3 pixel
Recovered ==
    \A k \in 1..Len(pts) :
        /\ 1000 * Abs(h0[k].v - pts[k].h) <= HScale
        /\ ~err[k].nan
        /\ 1000 * err[k].v < PScale

ReprojectionDistance(k, h) ==
    LET r == find_corresponding_point(cam.a, cam.b, Num(pts[k].x1), Num(pts[k].y1), h)
        dx == Sub(r[1], Num(pts[k].x2))
        dy == Sub(r[2], Num(pts[k].y2))
    IN Sqrt(Add(Mul(dx, dx), Mul(dy, dy)))

\* the distance between the observation of point k and r0 + h0_inc * a, the
\* reprojection at the height h before the update moved by the increment inc
\* along the finite difference a over HSTEP
LinearisedDistance(k, h, inc) ==
    LET r0 == find_corresponding_point(cam.a, cam.b, Num(pts[k].x1), Num(pts[k].y1), h)
        r1 == find_corresponding_point(cam.a, cam.b, Num(pts[k].x1), Num(pts[k].y1),
                                       Add(h, Num(HSTEP * HScale)))
        dx == Sub(Add(r0[1], MulHP(inc, Sub(r1[1], r0[1]))), Num(pts[k].x2))
        dy == Sub(Add(r0[2], MulHP(inc, Sub(r1[2], r0[2]))), Num(pts[k].y2))
    IN Sqrt(Add(Mul(dx, dx), Mul(dy, dy)))

NaNIncrement(inc) == \E k \in 1..Len(inc) : inc[k].nan

\* C18: once a point of the batch has a NaN increment, some point has one
\* after every later iteration, and the loop does not return before its
\* 100th iteration.
C18_NaNRunsFullLoop ==
    [][/\ NaNIncrement(h0_inc) => NaNIncrement(h0_inc')
       /\ (NaNIncrement(h0_inc') /\ pc' = "returned") => i' = MaxIter]_vars

C18_Witness ==
    /\ pc = "returned"
    /\ i = MaxIter
    /\ Len(pts) = 2
    /\ h0_inc[1].nan
    /\ ~h0_inc[2].nan
    /\ alone[2].pc = "returned"
    /\ alone[2].i = 2

-----------------------------------------------------------------------------
(* Altitude range: geodesic_bounding_box, altitude_range_coarse,           *)
(* min_max_heights_from_bbx, altitude_range                                *)

Min2(a, b) == IF a <= b THEN a ELSE b
Max2(a, b) == IF a >= b THEN a ELSE b
SetMin(S) == CHOOSE m \in S : \A n \in S : m <= n
SetMax(S) == CHOOSE m \in S : \A n \in S : m >= n
\* int(n / d) of a float n / d, d > 0: truncation towards zero
IntTrunc(n, d) == IF n >= 0 THEN n \div d ELSE -((-n) \div d)
\* np.clip without its upper bound
Clip_floor(v, lo, hi) == Max2(v, lo)
\* np.clip(v, lo, hi) == minimum(maximum(v, lo), hi)
Clip(v, lo, hi) == Min2(Max2(v, lo), hi)

\* the 8 vertices of {2D ROI} x [m, M], in the order of the three arrays
Corners(x, y, w, h, m, M) ==
    <<<<x, y, m>>, <<x, y, M>>, <<x, y + h, m>>, <<x, y + h, M>>,
      <<x + w, y, m>>, <<x + w, y, M>>, <<x + w, y + h, m>>, <<x + w, y + h, M>>>>

\* (lon_m, lon_M, lat_m, lat_M)
geodesic_bounding_box(rpc, x, y, w, h) ==
    LET m == rpc.alt_offset - rpc.alt_scale
        M == rpc.alt_offset + rpc.alt_scale
        c == Corners(x, y, w, h, m, M)
        Extrema(lon, lat) ==
            <<SetMin({lon[k].v : k \in 1..8}), SetMax({lon[k].v : k \in 1..8}),
              SetMin({lat[k].v : k \in 1..8}), SetMax({lat[k].v : k \in 1..8})>>
    IN Extrema(
         [k \in 1..8 |-> Localization(rpc, Num(c[k][1]), Num(c[k][2]), Num(c[k][3]))[1]],
         [k \in 1..8 |-> Localization(rpc, Num(c[k][1]), Num(c[k][2]), Num(c[k][3]))[2]])

\* altitude_range_coarse with the scale factor dropped
altitude_range_coarse_unscaled(rpc, scale_factor) ==
    <<rpc.alt_offset - rpc.alt_scale, rpc.alt_offset + rpc.alt_scale>>

altitude_range_coarse(rpc, scale_factor) ==
    <<rpc.alt_offset - scale_factor * rpc.alt_scale,
      rpc.alt_offset + scale_factor * rpc.alt_scale>>

\* The elevation rasters rasterio.open can return: a raster of sizex by sizey
\* cells of Cell units, whose cell (0, 0) starts at (ox, oy); cell (col, row)
\* holds Elevation(col, row), the cell (0, 0) the nodata sentinel.  The only
\* cell a window into void.tif can hold is the cell (0, 0).
Cell == 2 * PScale
NoData == -32768
Dems == {"near.tif", "far.tif", "thin.tif", "void.tif"}
Dataset(im) ==
    IF im = "near.tif" THEN [sizex |-> 4, sizey |-> 3, ox |-> 0, oy |-> 0]
    ELSE IF im = "far.tif" THEN [sizex |-> 4, sizey |-> 3, ox |-> 40 * Cell, oy |-> 0]
    ELSE IF im = "void.tif" THEN [sizex |-> 2, sizey |-> 2, ox |-> 0, oy |-> 0]
    ELSE IF im = "row.tif" THEN [sizex |-> 3, sizey |-> 1, ox |-> 0, oy |-> 0]
    ELSE IF im = "dot.tif" THEN [sizex |-> 1, sizey |-> 1, ox |-> 0, oy |-> 0]
    ELSE [sizex |-> 1, sizey |-> 3, ox |-> 0, oy |-> 0]
Elevation(col, row) ==
    IF col = 0 /\ row = 0 THEN NoData ELSE (10 + 5 * col + row) * HScale

\* geographiclib.geoid_above_ellipsoid(lat, lon); the arguments are twice the
\* coordinates of the centre, to keep them whole
GeoidAtTwice(lat2, lon2) == 30 * HScale + (lat2 + lon2) \div 4

WarnWindow == "WARNING: rpc_utils.min_max_heights_from_bbx: access window out of range"
WarnCoarseFromBbx == "returning coarse range from rpc"
WarnCoarse == "WARNING: returning coarse range from rpc"

\* the footprint of line 302: [px_min, px_max, py_min, py_max]
Footprint(d, lon_m, lon_M, lat_m, lat_M) ==
    LET \* pts, in Cell-ths of a raster pixel
        px == {lon_m - d.ox, lon_M - d.ox}
        py == {lat_m - d.oy, lat_M - d.oy}
    IN [px_min |-> IntTrunc(SetMin(px), Cell),
        px_max |-> IntTrunc(SetMax(px) + Cell, Cell),
        py_min |-> IntTrunc(SetMin(py), Cell),
        py_max |-> IntTrunc(SetMax(py) + Cell, Cell)]

\* the clipped window of lines 305-312: [x0, y0, w, h]
Window(d, lon_m, lon_M, lat_m, lat_M) ==
    LET Clipped(x, y, w, h, x0, y0) ==
            [x0 |-> x0, y0 |-> y0,
             w |-> Clip(w - (x0 - x), 0, d.sizex - 1 - x0),
             h |-> Clip(h - (y0 - y), 0, d.sizey - 1 - y0)]
        Extract(f) ==
            Clipped(f.px_min, f.py_min, f.px_max - f.px_min + 1, f.py_max - f.py_min + 1,
                    Clip(f.px_min, 0, d.sizex - 1), Clip(f.py_min, 0, d.sizey - 1))
    IN Extract(Footprint(d, lon_m, lon_M, lat_m, lat_M))

\* the window handed to dataset.read at line 316: ((row_start, row_stop),
\* (col_start, col_stop))
ReadWindow(win) == <<<<win.y0, win.y0 + win.h>>, <<win.x0, win.x0 + win.w>>>>

\* min_max_heights_from_bbx with the geoid offset added to hmax only
min_max_heights_from_bbx_geoid_top(c, im, lon_m, lon_M, lat_m, lat_M, rpc) ==
    LET d == Dataset(im)
        win == Window(d, lon_m, lon_M, lat_m, lat_M)
    IN IF win.w # 0 /\ win.h # 0
       THEN LET array == {Elevation(col, row) :
                            col \in win.x0 .. (win.x0 + win.w - 1),
                            row \in win.y0 .. (win.y0 + win.h - 1)}
                valid == array \ {NoData}
                hmin == IF valid = {} THEN NaN ELSE Num(SetMin(valid))
                hmax == IF valid = {} THEN NaN ELSE Num(SetMax(valid))
                geoid == Num(GeoidAtTwice(lat_m + lat_M, lon_m + lon_M))
            IN IF c.exogenous_dem_geoid_mode
               THEN [ret |-> <<hmin, Add(hmax, geoid)>>, out |-> <<>>, read |-> ReadWindow(win)]
               ELSE [ret |-> <<hmin, hmax>>, out |-> <<>>, read |-> ReadWindow(win)]
       ELSE [ret |-> <<Num(altitude_range_coarse(rpc, c.rpc_alt_range_scale_factor)[1]),
                       Num(altitude_range_coarse(rpc, c.rpc_alt_range_scale_factor)[2])>>,
             out |-> <<WarnWindow, WarnCoarseFromBbx>>, read |-> <<>>]

\* [ret, out, read]: (hmin, hmax), the lines printed and the window read
min_max_heights_from_bbx(c, im, lon_m, lon_M, lat_m, lat_M, rpc) ==
    LET d == Dataset(im)
        win == Window(d, lon_m, lon_M, lat_m, lat_M)
    IN IF win.w # 0 /\ win.h # 0
       THEN LET array == {Elevation(col, row) :
                            col \in win.x0 .. (win.x0 + win.w - 1),
                            row \in win.y0 .. (win.y0 + win.h - 1)}
                valid == array \ {NoData}
                \* np.nanmin / np.nanmax of an all-NaN array is NaN
                hmin == IF valid = {} THEN NaN ELSE Num(SetMin(valid))
                hmax == IF valid = {} THEN NaN ELSE Num(SetMax(valid))
                geoid == Num(GeoidAtTwice(lat_m + lat_M, lon_m + lon_M))
            IN IF c.exogenous_dem_geoid_mode
               THEN [ret |-> <<Add(hmin, geoid), Add(hmax, geoid)>>, out |-> <<>>,
                     read |-> ReadWindow(win)]
               ELSE [ret |-> <<hmin, hmax>>, out |-> <<>>, read |-> ReadWindow(win)]
       ELSE LET r == altitude_range_coarse(rpc, c.rpc_alt_range_scale_factor)
            IN [ret |-> <<Num(r[1]), Num(r[2])>>,
                out |-> <<WarnWindow, WarnCoarseFromBbx>>, read |-> <<>>]

\* [ret, out]: (h_m, h_M) and the lines printed
altitude_range(c, rpc, x, y, w, h, margin_top, margin_bottom) ==
    LET WithMargins(r) ==
            [ret |-> <<Add(r.ret[1], Num(margin_bottom)), Add(r.ret[2], Num(margin_top))>>,
             out |-> r.out]
        FromBbx(bbx) ==
            WithMargins(min_max_heights_from_bbx(c, c.exogenous_dem,
                                                 bbx[1], bbx[2], bbx[3], bbx[4], rpc))
        Coarse(r) == [ret |-> <<Num(r[1]), Num(r[2])>>, out |-> <<WarnCoarse>>]
    IN IF c.exogenous_dem # "None"
       THEN FromBbx(geodesic_bounding_box(rpc, x, y, w, h))
       ELSE Coarse(altitude_range_coarse(rpc, c.rpc_alt_range_scale_factor))

-----------------------------------------------------------------------------
(* generate_point_mesh, ground_control_points, matches_from_rpc *)

\* np.linspace(start, stop, num): num values, both endpoints included
Linspace(start, stop, num) ==
    [k \in 1..num |->
        IF start.nan \/ stop.nan THEN NaN
        ELSE IF k = 1 THEN start
        ELSE IF k = num THEN stop
        ELSE Num(start.v + RDiv((k - 1) * (stop.v - start.v), num - 1))]

\* generate_point_mesh with the row index not divided by the column count
generate_point_mesh_rows_tiled(col_range, row_range, alt_range) ==
    LET cols == Linspace(col_range[1], col_range[2], col_range[3])
        rows == Linspace(row_range[1], row_range[2], row_range[3])
        alts == Linspace(alt_range[1], alt_range[2], alt_range[3])
        nc == Len(cols)
        nr == Len(rows)
        na == Len(alts)
        kc(idx) == ((idx - 1) % nc) + 1
        kr(idx) == ((idx - 1) % nr) + 1
        ka(idx) == ((idx - 1) \div (nc * nr)) + 1
    IN [cols |-> [idx \in 1..(nc * nr * na) |-> cols[kc(idx)]],
        rows |-> [idx \in 1..(nc * nr * na) |-> rows[kr(idx)]],
        alts |-> [idx \in 1..(nc * nr * na) |-> alts[ka(idx)]]]

\* each range is <<min, max, count>>; [cols, rows, alts].  The three sums
\* broadcast to shape (n_alt, n_row, n_col) and reshape(-1) flattens them
\* in row-major order.
generate_point_mesh(col_range, row_range, alt_range) ==
    LET cols == Linspace(col_range[1], col_range[2], col_range[3])
        rows == Linspace(row_range[1], row_range[2], row_range[3])
        alts == Linspace(alt_range[1], alt_range[2], alt_range[3])
        nc == Len(cols)
        nr == Len(rows)
        na == Len(alts)
        kc(idx) == ((idx - 1) % nc) + 1
        kr(idx) == (((idx - 1) \div nc) % nr) + 1
        ka(idx) == ((idx - 1) \div (nc * nr)) + 1
        zero(a) == Mul(Num(0), a)
    IN [cols |-> [idx \in 1..(nc * nr * na) |->
                    Add(Add(cols[kc(idx)], zero(rows[kr(idx)])), zero(alts[ka(idx)]))],
        rows |-> [idx \in 1..(nc * nr * na) |->
                    Add(Add(zero(cols[kc(idx)]), rows[kr(idx)]), zero(alts[ka(idx)]))],
        alts |-> [idx \in 1..(nc * nr * na) |->
                    Add(Add(zero(cols[kc(idx)]), zero(rows[kr(idx)])), alts[ka(idx)])]]

\* [lon, lat, alt]; n >= 1 (n = 0 divides by zero)
ground_control_points(rpc, x, y, w, h, m, M, n) ==
    LET col_range == <<Num(x + RDiv(w, 2 * n)), Num(x + RDiv((2 * n - 1) * w, 2 * n)), n>>
        row_range == <<Num(y + RDiv(h, 2 * n)), Num(y + RDiv((2 * n - 1) * h, 2 * n)), n>>
        alt_range == <<m, M, n>>
        Localize(g) ==
            [lon |-> [k \in 1..Len(g.cols) |->
                        Localization(rpc, g.cols[k], g.rows[k], g.alts[k])[1]],
             lat |-> [k \in 1..Len(g.cols) |->
                        Localization(rpc, g.cols[k], g.rows[k], g.alts[k])[2]],
             alt |-> g.alts]
    IN Localize(generate_point_mesh(col_range, row_range, alt_range))

MatchMargin == 100

\* [matches, alt, out]: the rows (x1, y1, x2, y2), the altitudes of the
\* ground control points they come from, and the lines printed
matches_from_rpc(c, rpc1, rpc2, x, y, w, h, n) ==
    LET Project(g, out1) ==
            [matches |-> [k \in 1..Len(g.alt) |->
                            <<Projection(rpc1, g.lon[k], g.lat[k], g.alt[k])[1],
                              Projection(rpc1, g.lon[k], g.lat[k], g.alt[k])[2],
                              Projection(rpc2, g.lon[k], g.lat[k], g.alt[k])[1],
                              Projection(rpc2, g.lon[k], g.lat[k], g.alt[k])[2]>>],
             alt |-> g.alt, out |-> out1]
        Sample(r) ==
            Project(ground_control_points(rpc1, x, y, w, h, r.ret[1], r.ret[2], n), r.out)
    IN Sample(altitude_range(c, rpc1, x, y, w, h, MatchMargin * HScale,
                             -MatchMargin * HScale))

ZeroDivisionError == [kind |-> "raised", error |-> "ZeroDivisionError"]

\* the ROIs and margins the callers pass
MaxScaleFactor == 2
RoiXs == {0, 2 * PScale, 6 * PScale}
RoiWs == {PScale, 3 * PScale}
Rois == {[x |-> x, y |-> 0, w |-> w, h |-> w] : x \in RoiXs, w \in RoiWs}
Margins == {0, 100 * HScale}
Rpcs == {Nadir, Tilted}

AltitudeRangeCalls ==
    {[op |-> "altitude_range", rpc |-> rpc, roi |-> roi,
      margin_top |-> mt, margin_bottom |-> -mb] :
        rpc \in Rpcs, roi \in Rois, mt \in Margins, mb \in Margins}

\* altitude_range(rpc, x, y, w, h, margin_top, margin_bottom) runs and returns
CallAltitudeRange ==
    /\ call.op = "altitude_range"
    /\ ret = None
    /\ \E r \in {altitude_range(cfg, call.rpc, call.roi.x, call.roi.y, call.roi.w,
                                  call.roi.h, call.margin_top, call.margin_bottom)} :
          /\ ret' = [kind |-> "range", m |-> r.ret[1], M |-> r.ret[2]]
          /\ out' = r.out
    /\ UNCHANGED <<cam, pts, h0, h0_inc, err, i, pc, alone, cfg, call, th>>

MaxN == 2
Rpcs2 == {Oblique, Kinked}

MatchesFromRpcCalls ==
    {[op |-> "matches_from_rpc", rpc |-> rpc1, rpc2 |-> rpc2, roi |-> roi, n |-> n] :
        rpc1 \in Rpcs, rpc2 \in Rpcs2, roi \in Rois, n \in 0..MaxN}

\* matches_from_rpc(rpc1, rpc2, x, y, w, h, n) runs and returns or raises
CallMatchesFromRpc ==
    /\ call.op = "matches_from_rpc"
    /\ ret = None
    /\ IF call.n = 0
       THEN /\ ret' = ZeroDivisionError
            /\ out' = altitude_range(cfg, call.rpc, call.roi.x, call.roi.y, call.roi.w,
                                     call.roi.h, MatchMargin * HScale,
                                     -MatchMargin * HScale).out
       ELSE \E r \in {matches_from_rpc(cfg, call.rpc, call.rpc2, call.roi.x, call.roi.y,
                                         call.roi.w, call.roi.h, call.n)} :
               /\ ret' = [kind |-> "matches", matches |-> r.matches, alt |-> r.alt]
               /\ out' = r.out
    /\ UNCHANGED <<cam, pts, h0, h0_inc, err, i, pc, alone, cfg, call, th>>

\* any configuration of the three entries the altitude path reads
AltCfgs ==
    {[DefaultCfg EXCEPT !.exogenous_dem = d, !.exogenous_dem_geoid_mode = g,
                        !.rpc_alt_range_scale_factor = k] :
        d \in Dems \cup {"None"}, g \in BOOLEAN, k \in 1..MaxScaleFactor}

InitAlt ==
    /\ NoHeight
    /\ cfg \in AltCfgs
    /\ call \in AltitudeRangeCalls \cup MatchesFromRpcCalls
    /\ ret = None
    /\ out = <<>>
    /\ th = NoThreads

NextAlt == CallAltitudeRange \/ CallMatchesFromRpc
SpecAlt == InitAlt /\ [][NextAlt]_vars

\* the call's window into the configured raster is empty after clipping
EmptyWindow ==
    LET bbx == geodesic_bounding_box(call.rpc, call.roi.x, call.roi.y, call.roi.w, call.roi.h)
        win == Window(Dataset(cfg.exogenous_dem), bbx[1], bbx[2], bbx[3], bbx[4])
    IN win.w = 0 \/ win.h = 0

FallbackCase ==
    /\ call.op = "altitude_range"
    /\ ret # None
    /\ cfg.exogenous_dem # "None"
    /\ EmptyWindow

CoarseLow == call.rpc.alt_offset - cfg.rpc_alt_range_scale_factor * call.rpc.alt_scale
CoarseHigh == call.rpc.alt_offset + cfg.rpc_alt_range_scale_factor * call.rpc.alt_scale

\* C2 (as claimed): with an elevation source configured and an empty clipped
\* window, altitude_range warns and returns exactly
\* (alt_offset - k*alt_scale, alt_offset + k*alt_scale).
C2_Claim ==
    FallbackCase =>
        /\ ret.m = Num(CoarseLow)
        /\ ret.M = Num(CoarseHigh)
        /\ \E k \in 1..Len(out) : out[k] = WarnWindow

\* C2 (amended): with an elevation source configured and an empty clipped
\* window, altitude_range warns and returns the coarse range with the
\* margins added: (alt_offset - k*alt_scale + margin_bottom,
\* alt_offset + k*alt_scale + margin_top).
C2_FallbackPlusMargins ==
    FallbackCase =>
        /\ ret.m = Num(CoarseLow + call.margin_bottom)
        /\ ret.M = Num(CoarseHigh + call.margin_top)
        /\ \E k \in 1..Len(out) : out[k] = WarnWindow

C2_Witness ==
    /\ FallbackCase
    /\ cfg.rpc_alt_range_scale_factor = 2
    /\ call.margin_top # 0
    /\ ret.M = Num(CoarseHigh + call.margin_top)

\* the range before margins, on the path the call takes
BaseRange ==
    IF cfg.exogenous_dem # "None"
    THEN LET bbx == geodesic_bounding_box(call.rpc, call.roi.x, call.roi.y,
                                          call.roi.w, call.roi.h)
         IN min_max_heights_from_bbx(cfg, cfg.exogenous_dem,
                                     bbx[1], bbx[2], bbx[3], bbx[4], call.rpc).ret
    ELSE <<Num(CoarseLow), Num(CoarseHigh)>>

\* C3 (as claimed): on every path, altitude_range returns the base lower
\* bound plus margin_bottom and the base upper bound plus margin_top.
C3_Claim ==
    (call.op = "altitude_range" /\ ret # None) =>
        /\ ret.m = Add(BaseRange[1], Num(call.margin_bottom))
        /\ ret.M = Add(BaseRange[2], Num(call.margin_top))

\* C9 (as claimed): the altitudes of the ground control points of
\* matches_from_rpc span [m0 - 100, M0 + 100], (m0, M0) being altitude_range
\* with zero margins, with or without an elevation source.  Stated for
\* n >= 2 samples (one sample cannot span an interval) and a defined range.
C9_Claim ==
    (call.op = "matches_from_rpc" /\ ret # None /\ call.n >= 2) =>
        LET r0 == altitude_range(cfg, call.rpc, call.roi.x, call.roi.y,
                                 call.roi.w, call.roi.h, 0, 0).ret
            alts == {ret.alt[k] : k \in 1..Len(ret.alt)}
        IN (~r0[1].nan /\ ~r0[2].nan) =>
              /\ \A a \in alts : ~a.nan
              /\ SetMin({a.v : a \in alts}) = r0[1].v - MatchMargin * HScale
              /\ SetMax({a.v : a \in alts}) = r0[2].v + MatchMargin * HScale

\* the geoid offset at the centre of the call's geodetic bounding box
GeoidAtCentre ==
    LET bbx == geodesic_bounding_box(call.rpc, call.roi.x, call.roi.y, call.roi.w, call.roi.h)
    IN Num(GeoidAtTwice(bbx[3] + bbx[4], bbx[1] + bbx[2]))

\* what the same call returns with geoid correction not configured
WithoutGeoid ==
    altitude_range([cfg EXCEPT !.exogenous_dem_geoid_mode = FALSE], call.rpc,
                   call.roi.x, call.roi.y, call.roi.w, call.roi.h,
                   call.margin_top, call.margin_bottom).ret

\* the call reads the configured raster
RasterRead == cfg.exogenous_dem # "None" /\ ~EmptyWindow

\* C14 (as claimed): when geoid correction is configured altitude_range adds
\* the geoid offset at the centre of the bounding box to both bounds on every
\* path; when it is not configured it shifts neither bound.
C14_Claim ==
    (call.op = "altitude_range" /\ ret # None) =>
        IF cfg.exogenous_dem_geoid_mode
        THEN /\ ret.m = Add(WithoutGeoid[1], GeoidAtCentre)
             /\ ret.M = Add(WithoutGeoid[2], GeoidAtCentre)
        ELSE ret.m = WithoutGeoid[1] /\ ret.M = WithoutGeoid[2]

\* C14 (amended): when geoid correction is configured and the raster is
\* read, altitude_range adds the geoid offset at the centre of the bounding
\* box to both bounds; on the paths that return the coarse range of the RPC,
\* and when it is not configured, it shifts neither bound.
C14_GeoidOnRasterPath ==
    (call.op = "altitude_range" /\ ret # None) =>
        IF cfg.exogenous_dem_geoid_mode /\ RasterRead
        THEN /\ ret.m = Add(WithoutGeoid[1], GeoidAtCentre)
             /\ ret.M = Add(WithoutGeoid[2], GeoidAtCentre)
        ELSE ret.m = WithoutGeoid[1] /\ ret.M = WithoutGeoid[2]

C14_Witness ==
    /\ call.op = "altitude_range"
    /\ ret # None
    /\ cfg.exogenous_dem_geoid_mode
    /\ RasterRead
    /\ ~ret.m.nan
    /\ ret.m.v < ret.M.v
    /\ GeoidAtCentre.v # 0
    /\ call.margin_top # 0
    /\ ret.M = Add(WithoutGeoid[2], GeoidAtCentre)

\* the call returned matches
MatchesReturned == call.op = "matches_from_rpc" /\ ret # None /\ ret.kind = "matches"

\* v is a defined position at least extent/(2n) inside [start, start + extent],
\* to the nearest unit
Inset(v, start, extent, n) ==
    /\ ~v.nan
    /\ 2 * n * (v.v - start) + n >= extent
    /\ 2 * n * (start + extent - v.v) + n >= extent
    /\ (extent > 0 => start < v.v /\ v.v < start + extent)

\* C15 (as claimed): matches_from_rpc with n >= 1 returns n^3 matches from
\* n columns x n rows x n altitudes, every column within
\* [x + w/(2n), x + w - w/(2n)], every row within [y + h/(2n), y + h - h/(2n)],
\* none on the border of the ROI.
C15_Claim ==
    MatchesReturned =>
        /\ Len(ret.matches) = call.n * call.n * call.n
        /\ Len(ret.alt) = call.n * call.n * call.n
        /\ \A k \in 1..Len(ret.matches) :
              /\ Inset(ret.matches[k][1], call.roi.x, call.roi.w, call.n)
              /\ Inset(ret.matches[k][2], call.roi.y, call.roi.h, call.n)
        /\ Cardinality({ret.matches[k][1] : k \in 1..Len(ret.matches)}) = call.n
        /\ Cardinality({ret.matches[k][2] : k \in 1..Len(ret.matches)}) = call.n

\* C15, what the code does when the altitude range is defined
C15_DefinedRange ==
    (MatchesReturned /\ \A k \in 1..Len(ret.alt) : ~ret.alt[k].nan) => C15_Claim

-----------------------------------------------------------------------------
(* min_max_heights_from_bbx on its own: every footprint against every raster *)

MaxPixel == 4
Rasters == Dems \cup {"row.tif", "dot.tif"}
\* ends of the geodetic bounding box: half cells in longitude, whole cells in
\* latitude, from three cells before the origin of the raster
LonEnds == {k * PScale : k \in (-6)..(2 * MaxPixel)}
LatEnds == {k * Cell : k \in (-3)..MaxPixel}

MinMaxHeightsCalls ==
    {[op |-> "min_max_heights_from_bbx", im |-> im, rpc |-> Nadir,
      lon_m |-> lon_m, lon_M |-> lon_M, lat_m |-> lat_m, lat_M |-> lat_M] :
        im \in Rasters, lon_m \in LonEnds, lon_M \in LonEnds,
        lat_m \in LatEnds, lat_M \in LatEnds}

\* min_max_heights_from_bbx(im, lon_m, lon_M, lat_m, lat_M, rpc) runs
CallMinMaxHeights ==
    /\ call.op = "min_max_heights_from_bbx"
    /\ ret = None
    /\ \E r \in {min_max_heights_from_bbx(cfg, call.im, call.lon_m, call.lon_M,
                                          call.lat_m, call.lat_M, call.rpc)} :
          /\ ret' = [kind |-> "range", m |-> r.ret[1], M |-> r.ret[2], read |-> r.read]
          /\ out' = r.out
    /\ UNCHANGED <<cam, pts, h0, h0_inc, err, i, pc, alone, cfg, call, th>>

InitWindow ==
    /\ NoHeight
    /\ call \in MinMaxHeightsCalls
    /\ call.lon_m <= call.lon_M
    /\ call.lat_m <= call.lat_M
    /\ cfg = [DefaultCfg EXCEPT !.exogenous_dem = call.im]
    /\ ret = None
    /\ out = <<>>
    /\ th = NoThreads

NextWindow == CallMinMaxHeights
SpecWindow == InitWindow /\ [][NextWindow]_vars

MinMaxHeightsReturned == call.op = "min_max_heights_from_bbx" /\ ret # None

\* the integer footprint of the call has no pixel in common with the raster
FootprintOutside ==
    LET d == Dataset(call.im)
        Disjoint(f) ==
            \/ f.px_max < 0
            \/ f.px_min > d.sizex - 1
            \/ f.py_max < 0
            \/ f.py_min > d.sizey - 1
    IN Disjoint(Footprint(d, call.lon_m, call.lon_M, call.lat_m, call.lat_M))

\* the clipped window lies inside a raster of the size of d
WindowInside(d, win) ==
    /\ 0 <= win.x0 /\ win.x0 <= d.sizex - 1
    /\ 0 <= win.y0 /\ win.y0 <= d.sizey - 1
    /\ 0 <= win.w /\ win.w <= d.sizex - 1 - win.x0
    /\ 0 <= win.h /\ win.h <= d.sizey - 1 - win.y0

\* the call returned the coarse range of the RPC and printed the two warnings
CoarseFallback ==
    /\ ret.read = <<>>
    /\ out = <<WarnWindow, WarnCoarseFromBbx>>
    /\ ret.m = Num(altitude_range_coarse(call.rpc, cfg.rpc_alt_range_scale_factor)[1])
    /\ ret.M = Num(altitude_range_coarse(call.rpc, cfg.rpc_alt_range_scale_factor)[2])

\* C17: in min_max_heights_from_bbx the clipped window satisfies
\* 0 <= x0 <= sizex-1, 0 <= y0 <= sizey-1, 0 <= w <= sizex-1-x0 and
\* 0 <= h <= sizey-1-y0, so a read stays inside the raster; the raster is read
\* exactly when w # 0 and h # 0; a footprint entirely outside the raster gives
\* w = 0 or h = 0 and the coarse fallback.
C17_WindowInsideRaster ==
    MinMaxHeightsReturned =>
        LET d == Dataset(call.im)
            Holds(win) ==
                /\ WindowInside(d, win)
                /\ (ret.read # <<>>) <=> (win.w # 0 /\ win.h # 0)
                /\ ret.read # <<>> =>
                      /\ ret.read = ReadWindow(win)
                      /\ 0 <= ret.read[1][1] /\ ret.read[1][2] <= d.sizey
                      /\ 0 <= ret.read[2][1] /\ ret.read[2][2] <= d.sizex
                      /\ out = <<>>
                /\ ret.read = <<>> => CoarseFallback
                /\ FootprintOutside => (win.w = 0 \/ win.h = 0) /\ CoarseFallback
        IN Holds(Window(d, call.lon_m, call.lon_M, call.lat_m, call.lat_M))

\* a footprint that begins before the first column and ends beyond the last
\* one was clipped on both sides and the raster was read
C17_Witness ==
    /\ MinMaxHeightsReturned
    /\ call.im = "near.tif"
    /\ call.lon_m < 0
    /\ call.lon_M >= 3 * Cell
    /\ ret.read = <<<<0, 2>>, <<0, 3>>>>
    /\ ~ret.m.nan

-----------------------------------------------------------------------------
(* The mesh generator on its own *)

MaxCount == 3
MeshEnds == {0, PScale, 4 * PScale}
MeshRanges == {<<Num(lo), Num(hi), n>> : lo \in {0, PScale}, hi \in MeshEnds, n \in 0..MaxCount}
AltRanges == {<<Num(0), Num(HScale), n>> : n \in 0..MaxCount}

GenerateMeshCalls ==
    {[op |-> "generate_point_mesh", col_range |-> cr, row_range |-> rr, alt_range |-> ar] :
        cr \in MeshRanges, rr \in MeshRanges, ar \in AltRanges}

\* generate_point_mesh(col_range, row_range, alt_range) runs and returns
CallGenerateMesh ==
    /\ call.op = "generate_point_mesh"
    /\ ret = None
    /\ LET g == generate_point_mesh(call.col_range, call.row_range, call.alt_range)
       IN ret' = [kind |-> "mesh", cols |-> g.cols, rows |-> g.rows, alts |-> g.alts]
    /\ UNCHANGED <<cam, pts, h0, h0_inc, err, i, pc, alone, cfg, call, out, th>>

InitMesh ==
    /\ NoHeight
    /\ cfg = DefaultCfg
    /\ call \in GenerateMeshCalls
    /\ ret = None
    /\ out = <<>>
    /\ th = NoThreads

NextMesh == CallGenerateMesh
SpecMesh == InitMesh /\ [][NextMesh]_vars

\* sample k of n linearly spaced values from lo to hi, endpoints included,
\* to the nearest unit; one sample is lo
LinearSample(lo, hi, n, k) ==
    IF k = 1 THEN lo
    ELSE IF k = n THEN hi
    ELSE CHOOSE v \in Min2(lo, hi) .. Max2(lo, hi) :
            /\ 2 * ((n - 1) * (v - lo) - (k - 1) * (hi - lo)) <= n - 1
            /\ 2 * ((k - 1) * (hi - lo) - (n - 1) * (v - lo)) < n - 1

\* C7: generate_point_mesh returns three sequences of length nc*nr*na, and
\* the triples at equal indices are the Cartesian product of the three
\* linear samplings, each combination of samples appearing exactly once.
C7_MeshIsProduct ==
    (call.op = "generate_point_mesh" /\ ret # None) =>
        LET cr == call.col_range
            rr == call.row_range
            ar == call.alt_range
            N == cr[3] * rr[3] * ar[3]
            want == [t \in (1..cr[3]) \X (1..rr[3]) \X (1..ar[3]) |->
                        <<Num(LinearSample(cr[1].v, cr[2].v, cr[3], t[1])),
                          Num(LinearSample(rr[1].v, rr[2].v, rr[3], t[2])),
                          Num(LinearSample(ar[1].v, ar[2].v, ar[3], t[3]))>>]
            got == [k \in 1..Len(ret.cols) |-> <<ret.cols[k], ret.rows[k], ret.alts[k]>>]
            triples == {want[t] : t \in DOMAIN want} \cup {got[k] : k \in DOMAIN got}
        IN /\ Len(ret.cols) = N /\ Len(ret.rows) = N /\ Len(ret.alts) = N
           /\ \A tr \in triples :
                 Cardinality({k \in DOMAIN got : got[k] = tr})
                     = Cardinality({t \in DOMAIN want : want[t] = tr})

C7_Witness ==
    /\ call.op = "generate_point_mesh"
    /\ ret # None
    /\ call.col_range[3] = 3 /\ call.row_range[3] = 2 /\ call.alt_range[3] = 2
    /\ call.col_range[1] # call.col_range[2]
    /\ Len(ret.cols) = 12
    /\ Cardinality({<<ret.cols[k], ret.rows[k], ret.alts[k]>> : k \in 1..12}) = 12
-----------------------------------------------------------------------------
(* Disparity range: alt_to_disp, altitude_range_to_disp_range,             *)
(* exogenous_disp_range_estimation                                         *)

\* 3x3 matrices with whole entries, acting on pixel coordinates
Identity3 == <<<<1, 0, 0>>, <<0, 1, 0>>, <<0, 0, 1>>>>
Homographies ==
    {Identity3,
     <<<<2, 0, 3>>, <<0, 1, 0>>, <<0, 0, 1>>>>,
     <<<<-1, 1, 0>>, <<0, 1, 2>>, <<0, 0, 2>>>>}
PointingCorrections ==
    {[kind |-> "matrix", A |-> <<<<1, 0, 2>>, <<0, 1, -1>>, <<0, 0, 1>>>>],
     [kind |-> "matrix", A |-> <<<<1, 1, 0>>, <<0, 1, 0>>, <<0, 0, 1>>>>]}

\* np.linalg.inv of a matrix of determinant 1: its adjugate
Inv3(A) ==
    LET c(r, k) == A[((r - 1) % 3) + 1][((k - 1) % 3) + 1]
        cof(r, k) == c(r + 1, k + 1) * c(r + 2, k + 2) - c(r + 1, k + 2) * c(r + 2, k + 1)
    IN [r \in 1..3 |-> [k \in 1..3 |-> cof(k, r)]]

\* common.points_apply_homography(H, pts) for one point: the point in
\* homogeneous coordinates times H, divided by its third coordinate (> 0)
ApplyHomography(H, p) ==
    IF p[1].nan \/ p[2].nan THEN <<NaN, NaN>>
    ELSE LET X == H[1][1] * p[1].v + H[1][2] * p[2].v + H[1][3] * PScale
             Y == H[2][1] * p[1].v + H[2][2] * p[2].v + H[2][3] * PScale
             W == H[3][1] * p[1].v + H[3][2] * p[2].v + H[3][3] * PScale
         IN <<Num(RDiv(X * PScale, W)), Num(RDiv(Y * PScale, W))>>

\* alt_to_disp for one element of the arrays x, y, alt; A is None or a matrix
alt_to_disp(rpc1, rpc2, x, y, alt, H1, H2, A) ==
    LET p1 == <<x, y>>
        p2 == find_corresponding_point(rpc1, rpc2, x, y, alt)
        p2c == IF A # None THEN ApplyHomography(Inv3(A.A), p2) ELSE p2
        q1 == ApplyHomography(H1, p1)
        q2 == ApplyHomography(H2, p2c)
    IN Sub(q2[1], q1[1])

\* np.min and np.max of a non-empty array: NaN if any element is
NpMin(d) ==
    IF \E k \in DOMAIN d : d[k].nan THEN NaN ELSE Num(SetMin({d[k].v : k \in DOMAIN d}))
NpMax(d) ==
    IF \E k \in DOMAIN d : d[k].nan THEN NaN ELSE Num(SetMax({d[k].v : k \in DOMAIN d}))

\* altitude_range_to_disp_range over the 4 vertices at altitude m only
altitude_range_to_disp_range_low(m, M, rpc1, rpc2, x, y, w, h, H1, H2, A) ==
    LET abc == Corners(x, y, w, h, m, m)
        d == [k \in 1..8 |->
                alt_to_disp(rpc1, rpc2, Num(abc[k][1]), Num(abc[k][2]), abc[k][3], H1, H2, A)]
    IN <<NpMin(d), NpMax(d)>>

\* (np.min(d), np.max(d)) over the 8 vertices; m and M are values
altitude_range_to_disp_range(m, M, rpc1, rpc2, x, y, w, h, H1, H2, A) ==
    LET abc == Corners(x, y, w, h, m, M)
        d == [k \in 1..8 |->
                alt_to_disp(rpc1, rpc2, Num(abc[k][1]), Num(abc[k][2]), abc[k][3], H1, H2, A)]
    IN <<NpMin(d), NpMax(d)>>

\* [ret, out]
exogenous_disp_range_estimation(c, rpc1, rpc2, x, y, w, h, H1, H2, A, margin_top, margin_bottom) ==
    LET Disparities(r) ==
            [ret |-> altitude_range_to_disp_range(r.ret[1], r.ret[2], rpc1, rpc2,
                                                  x, y, w, h, H1, H2, A),
             out |-> r.out]
    IN Disparities(altitude_range(c, rpc1, x, y, w, h, margin_top, margin_bottom))

AltPairs == {<<Num(0), Num(10 * HScale)>>, <<Num(-5 * HScale), Num(2 * HScale)>>}
DispRpcs2 == {Oblique, Kinked, Graded}

DispRangeCalls ==
    {[op |-> "altitude_range_to_disp_range", m |-> mM[1], M |-> mM[2], rpc |-> rpc1,
      rpc2 |-> rpc2, roi |-> roi, H1 |-> H1, H2 |-> H2, A |-> A] :
        mM \in AltPairs, rpc1 \in Rpcs, rpc2 \in DispRpcs2, roi \in Rois,
        H1 \in Homographies, H2 \in Homographies, A \in PointingCorrections \cup {None}}

ExogenousDispCalls ==
    {[op |-> "exogenous_disp_range_estimation", rpc |-> rpc1, rpc2 |-> Oblique, roi |-> roi,
      H1 |-> Identity3, H2 |-> H2, A |-> None, margin_top |-> mt, margin_bottom |-> 0] :
        rpc1 \in Rpcs, roi \in Rois, H2 \in Homographies, mt \in Margins}

\* altitude_range_to_disp_range(m, M, rpc1, rpc2, x, y, w, h, H1, H2, A) runs
CallAltitudeRangeToDispRange ==
    /\ call.op = "altitude_range_to_disp_range"
    /\ ret = None
    /\ \E r \in {altitude_range_to_disp_range(call.m, call.M, call.rpc, call.rpc2,
                    call.roi.x, call.roi.y, call.roi.w, call.roi.h, call.H1, call.H2, call.A)} :
          ret' = [kind |-> "disp_range", d_min |-> r[1], d_max |-> r[2]]
    /\ UNCHANGED <<cam, pts, h0, h0_inc, err, i, pc, alone, cfg, call, out, th>>

\* exogenous_disp_range_estimation(rpc1, rpc2, x, y, w, h, H1, H2, A, ...) runs
CallExogenousDispRange ==
    /\ call.op = "exogenous_disp_range_estimation"
    /\ ret = None
    /\ \E r \in {exogenous_disp_range_estimation(cfg, call.rpc, call.rpc2,
                    call.roi.x, call.roi.y, call.roi.w, call.roi.h, call.H1, call.H2,
                    call.A, call.margin_top, call.margin_bottom)} :
          /\ ret' = [kind |-> "disp_range", d_min |-> r.ret[1], d_max |-> r.ret[2]]
          /\ out' = r.out
    /\ UNCHANGED <<cam, pts, h0, h0_inc, err, i, pc, alone, cfg, call, th>>

InitDisp ==
    /\ NoHeight
    /\ \/ cfg = DefaultCfg /\ call \in DispRangeCalls
       \/ cfg \in AltCfgs /\ call \in ExogenousDispCalls
    /\ ret = None
    /\ out = <<>>
    /\ th = NoThreads

NextDisp == CallAltitudeRangeToDispRange \/ CallExogenousDispRange
SpecDisp == InitDisp /\ [][NextDisp]_vars

\* the horizontal disparities of the 8 points {x, x+w} x {y, y+h} x {m, M}
CornerDisparities ==
    {alt_to_disp(call.rpc, call.rpc2, Num(cx), Num(cy), ca, call.H1, call.H2, call.A).v :
        cx \in {call.roi.x, call.roi.x + call.roi.w},
        cy \in {call.roi.y, call.roi.y + call.roi.h},
        ca \in {call.m, call.M}}

\* C8: altitude_range_to_disp_range returns d_min <= d_max, the disparity of
\* each of the 8 points lies in [d_min, d_max], and d_min and d_max are each
\* the disparity of one of the 8 points.
C8_DispRangeBrackets ==
    (call.op = "altitude_range_to_disp_range" /\ ret # None) =>
        /\ ~ret.d_min.nan /\ ~ret.d_max.nan
        /\ ret.d_min.v <= ret.d_max.v
        /\ \A d \in CornerDisparities : ret.d_min.v <= d /\ d <= ret.d_max.v
        /\ ret.d_min.v \in CornerDisparities
        /\ ret.d_max.v \in CornerDisparities

C8_Witness ==
    /\ call.op = "altitude_range_to_disp_range"
    /\ ret # None
    /\ call.A # None
    /\ Cardinality(CornerDisparities) >= 4
    /\ ret.d_min.v < ret.d_max.v
    /\ alt_to_disp(call.rpc, call.rpc2, Num(call.roi.x), Num(call.roi.y), call.m,
                   call.H1, call.H2, call.A).v \notin {ret.d_min.v, ret.d_max.v}
-----------------------------------------------------------------------------
(* ROI conversion: roi_process, geojson_roi_process, kml_roi_process.      *)
(* Longitudes and latitudes are whole degrees; a UTM zone such as '31N'    *)
(* is [kind |-> "zone", band |-> 31, hem |-> "N"].  An array is            *)
(* [ndim, v]: v is a sequence of (lon, lat) vertices when ndim = 2.        *)

Zone(band, hem) == [kind |-> "zone", band |-> band, hem |-> hem]
Array(ndim, v) == [ndim |-> ndim, v |-> v]

RECURSIVE SumOf(_, _, _)
SumOf(v, col, n) == IF n = 0 THEN 0 ELSE SumOf(v, col, n - 1) + v[n][col]

\* geographiclib.compute_utm_zone(*ll_poly.mean(axis=0)) of an (n, 2) array
compute_utm_zone_of_mean(v) ==
    LET n == Len(v)
        lon == SumOf(v, 1, n)
        lat == SumOf(v, 2, n)
    IN Zone((((lon + 180 * n) \div (6 * n)) % 60) + 1, IF lat < 0 THEN "S" ELSE "N")

\* pyproj.transform(epsg:4326, geographiclib.utm_proj(zone), lon, lat), in km
Easting(lon, zone) == 500 + 111 * (lon - (6 * zone.band - 183))
Northing(lat, zone) == IF zone.hem = "N" THEN 111 * lat ELSE 10000 + 111 * lat

KeyError == [kind |-> "raised", error |-> "KeyError"]
IndexError == [kind |-> "raised", error |-> "IndexError"]
TypeError == [kind |-> "raised", error |-> "TypeError"]
AxisError == [kind |-> "raised", error |-> "AxisError"]

\* lines 497-498: the zone roi_process goes on with, or what it raises
ZoneStep(ll_poly, utm_zone) ==
    IF utm_zone # None THEN utm_zone
    ELSE IF ll_poly.ndim = 2 THEN compute_utm_zone_of_mean(ll_poly.v)
    ELSE IF ll_poly.ndim = 0 THEN AxisError
    ELSE TypeError

\* lines 502-507: (east_min, east_max, nort_min, nort_max), or what is raised
BbxStep(ll_poly, utm_zone) ==
    IF ll_poly.ndim # 2 THEN IndexError
    ELSE LET easting == {Easting(ll_poly.v[k][1], utm_zone) : k \in 1..Len(ll_poly.v)}
             northing == {Northing(ll_poly.v[k][2], utm_zone) : k \in 1..Len(ll_poly.v)}
         IN [kind |-> "bbx", east_min |-> SetMin(easting), east_max |-> SetMax(easting),
             nort_min |-> SetMin(northing), nort_max |-> SetMax(northing)]

\* lines 511-516: the image ROI, common.bounding_box2D of the projected
\* vertices in whole pixels
RoiStep(rpc, ll_poly) ==
    LET img == [k \in 1..Len(ll_poly.v) |->
                  Projection(rpc, Num(ll_poly.v[k][1] * PScale),
                             Num(ll_poly.v[k][2] * PScale), Num(rpc.alt_offset))]
        xs == {img[k][1].v : k \in 1..Len(img)}
        ys == {img[k][2].v : k \in 1..Len(img)}
        x == SetMin(xs) \div PScale
        y == SetMin(ys) \div PScale
    IN [kind |-> "roi", x |-> x, y |-> y,
        w |-> -((-SetMax(xs)) \div PScale) - x, h |-> -((-SetMax(ys)) \div PScale) - y]

\* lines 462-474 of geojson_roi_process: np.array(a["coordinates"][0]), or
\* what is raised.  A geometry carries the nesting depth of its coordinates.
LoadGeojson(geojson) ==
    IF "type" \notin DOMAIN geojson THEN KeyError
    ELSE LET a1 == IF geojson.type = "FeatureCollection" THEN geojson.features[1]
                   ELSE geojson
             a2 == IF a1.type = "Feature" THEN a1.geometry ELSE a1
         IN IF "coordinates" \notin DOMAIN a2 THEN KeyError
            ELSE Array(a2.depth - 1, a2.coordinates[1])

\* lines 434-436 of kml_roi_process: the first <coordinates> element
LoadKml(kml) ==
    IF Len(kml.coordinates) = 0 THEN IndexError
    ELSE Array(2, kml.coordinates[1])

PolyA == <<<<1, 10>>, <<2, 10>>, <<2, 12>>, <<1, 11>>>>
PolyB == <<<<7, -5>>, <<9, -5>>, <<9, -4>>>>
Polygon(ring) == [type |-> "Polygon", coordinates |-> <<ring>>, depth |-> 3]
GeojsonObjects ==
    {Polygon(PolyA),
     [type |-> "Feature", geometry |-> Polygon(PolyB)],
     [type |-> "FeatureCollection",
      features |-> <<[type |-> "Feature", geometry |-> Polygon(PolyA)]>>],
     [type |-> "Polygon"],
     [type |-> "GeometryCollection", geometries |-> <<Polygon(PolyA)>>],
     [type |-> "MultiLineString", coordinates |-> <<PolyB>>, depth |-> 3],
     [type |-> "LineString", coordinates |-> PolyB, depth |-> 2],
     [type |-> "Point", coordinates |-> <<7, -5>>, depth |-> 1],
     [coordinates |-> <<PolyA>>, depth |-> 3]}
KmlFiles == {[coordinates |-> <<PolyB>>], [coordinates |-> <<>>]}
ZoneArgs == {None, Zone(31, "N")}

Requests ==
    {[op |-> "roi_process", ll_poly |-> Array(2, v), utm_zone |-> z] :
        v \in {PolyA, PolyB}, z \in ZoneArgs}
    \cup {[op |-> "geojson_roi_process", geojson |-> g, utm_zone |-> z] :
            g \in GeojsonObjects, z \in ZoneArgs}
    \cup {[op |-> "kml_roi_process", kml |-> f, utm_zone |-> None] : f \in KmlFiles}

NThreads == 2

\* a caller about to run its request; every caller uses the same camera model
ThreadInit(req) ==
    IF req.op = "roi_process"
    THEN [req |-> req, pc |-> "zone", ll_poly |-> req.ll_poly, utm_zone |-> req.utm_zone,
          ret |-> None]
    ELSE [req |-> req, pc |-> "load", ll_poly |-> None, utm_zone |-> req.utm_zone,
          ret |-> None]

\* geojson_roi_process or kml_roi_process up to its call of roi_process
Load(t) ==
    /\ th[t].pc = "load"
    /\ LET a == IF th[t].req.op = "geojson_roi_process" THEN LoadGeojson(th[t].req.geojson)
                ELSE LoadKml(th[t].req.kml)
       IN IF "error" \in DOMAIN a
          THEN th' = [th EXCEPT ![t].pc = "raised", ![t].ret = a]
          ELSE th' = [th EXCEPT ![t].pc = "zone", ![t].ll_poly = a]
    /\ UNCHANGED <<cam, pts, h0, h0_inc, err, i, pc, alone, cfg, call, ret, out>>

\* roi_process, lines 497-499: cfg["utm_zone"] = utm_zone
WriteZone(t) ==
    /\ th[t].pc = "zone"
    /\ LET z == ZoneStep(th[t].ll_poly, th[t].utm_zone)
       IN IF "error" \in DOMAIN z
          THEN /\ th' = [th EXCEPT ![t].pc = "raised", ![t].ret = z]
               /\ cfg' = cfg
          ELSE /\ th' = [th EXCEPT ![t].pc = "bbx", ![t].utm_zone = z]
               /\ cfg' = [cfg EXCEPT !.utm_zone = z]
    /\ UNCHANGED <<cam, pts, h0, h0_inc, err, i, pc, alone, call, ret, out>>

\* roi_process, lines 502-508: cfg["utm_bbx"] = (east_min, ..., nort_max)
WriteBbx(t) ==
    /\ th[t].pc = "bbx"
    /\ LET b == BbxStep(th[t].ll_poly, th[t].utm_zone)
       IN IF "error" \in DOMAIN b
          THEN /\ th' = [th EXCEPT ![t].pc = "raised", ![t].ret = b]
               /\ cfg' = cfg
          ELSE /\ th' = [th EXCEPT ![t].pc = "roi"]
               /\ cfg' = [cfg EXCEPT !.utm_bbx = b]
    /\ UNCHANGED <<cam, pts, h0, h0_inc, err, i, pc, alone, call, ret, out>>

\* roi_process, lines 511-516: return the image ROI
ReturnRoi(t) ==
    /\ th[t].pc = "roi"
    /\ th' = [th EXCEPT ![t].pc = "returned", ![t].ret = RoiStep(Nadir, th[t].ll_poly)]
    /\ UNCHANGED <<cam, pts, h0, h0_inc, err, i, pc, alone, cfg, call, ret, out>>

InitRoi ==
    /\ NoHeight
    /\ cfg = DefaultCfg
    /\ NoCall
    /\ th \in [1..NThreads -> {ThreadInit(r) : r \in Requests}]

NextRoi == \E t \in 1..NThreads : Load(t) \/ WriteZone(t) \/ WriteBbx(t) \/ ReturnRoi(t)
SpecRoi == InitRoi /\ [][NextRoi]_vars

\* the configuration after the whole of one request, run on its own from c
CfgAfter(c, req) ==
    LET a == IF req.op = "roi_process" THEN req.ll_poly
             ELSE IF req.op = "geojson_roi_process" THEN LoadGeojson(req.geojson)
             ELSE LoadKml(req.kml)
    IN IF "error" \in DOMAIN a THEN c
       ELSE LET z == ZoneStep(a, req.utm_zone)
            IN IF "error" \in DOMAIN z THEN c
               ELSE LET b == BbxStep(a, z)
                    IN IF "error" \in DOMAIN b THEN [c EXCEPT !.utm_zone = z]
                       ELSE [c EXCEPT !.utm_zone = z, !.utm_bbx = b]

RECURSIVE CfgAfterAll(_, _, _)
\* the configuration after the requests of the callers order[1..n], one
\* after the other
CfgAfterAll(c, order, n) ==
    IF n = 0 THEN c ELSE CfgAfter(CfgAfterAll(c, order, n - 1), th[order[n]].req)

AllDone == \A t \in 1..NThreads : th[t].pc \in {"returned", "raised"}

\* C4 (as claimed): the operations are safe to invoke concurrently: once
\* the concurrent calls are over, the shared configuration is what running
\* the calls one after the other, in some order, leaves.
C4_Claim ==
    AllDone =>
        \E order \in Permutations(1..NThreads) :
            cfg = CfgAfterAll(DefaultCfg, order, NThreads)

\* a top-level object the loader is to reject
Malformed(geojson) ==
    \/ "type" \notin DOMAIN geojson
    \/ geojson.type \notin {"FeatureCollection", "Feature", "Polygon"}
    \/ geojson.type = "Polygon" /\ "coordinates" \notin DOMAIN geojson

\* C10 (as claimed): a call of geojson_roi_process on a malformed top-level
\* object fails at the loader: it never gets into roi_process.
C10_Claim ==
    \A t \in 1..NThreads :
        (th[t].req.op = "geojson_roi_process" /\ Malformed(th[t].req.geojson)) =>
            th[t].pc \in {"load", "raised"} /\ th[t].ll_poly = None

-----------------------------------------------------------------------------
(* Calls of roi_process one after the other: caller t starts once the      *)
(* callers before it have returned or raised.                              *)

Done(t) == th[t].pc \in {"returned", "raised"}
NotStarted(t) == th[t] = ThreadInit(th[t].req)
InTurn(t) == \A u \in 1..(t - 1) : Done(u)

NextRoiSeq ==
    \E t \in 1..NThreads :
        InTurn(t) /\ (Load(t) \/ WriteZone(t) \/ WriteBbx(t) \/ ReturnRoi(t))
SpecRoiSeq == InitRoi /\ [][NextRoiSeq]_vars

\* no call is under way
BetweenCalls == \A t \in 1..NThreads : Done(t) \/ NotStarted(t)
Returned == {t \in 1..NThreads : th[t].pc = "returned"}
LastOf(S) == CHOOSE t \in S : \A u \in S : u <= t

\* the zone the call of caller t is to leave: the one supplied, or the zone
\* of the mean vertex of its polygon
ZoneOfCall(t) ==
    IF th[t].req.utm_zone # None THEN th[t].req.utm_zone
    ELSE compute_utm_zone_of_mean(th[t].ll_poly.v)

\* b is the bounding box of the polygon of caller t in the zone z
BbxOfCall(b, t, z) ==
    LET v == th[t].ll_poly.v
    IN /\ b.kind = "bbx"
       /\ b.east_min <= b.east_max
       /\ b.nort_min <= b.nort_max
       /\ \A k \in 1..Len(v) :
             /\ b.east_min <= Easting(v[k][1], z) /\ Easting(v[k][1], z) <= b.east_max
             /\ b.nort_min <= Northing(v[k][2], z) /\ Northing(v[k][2], z) <= b.nort_max
       /\ \E k \in 1..Len(v) : b.east_min = Easting(v[k][1], z)
       /\ \E k \in 1..Len(v) : b.east_max = Easting(v[k][1], z)
       /\ \E k \in 1..Len(v) : b.nort_min = Northing(v[k][2], z)
       /\ \E k \in 1..Len(v) : b.nort_max = Northing(v[k][2], z)

HoldsCall(t) ==
    /\ cfg.utm_zone = ZoneOfCall(t)
    /\ BbxOfCall(cfg.utm_bbx, t, ZoneOfCall(t))

\* C13 (as claimed): after any sequence of roi_process calls, direct or
\* through the two loaders, the configuration holds the UTM zone and the UTM
\* bounding box of the most recently completed call: the zone supplied, else
\* the zone of the polygon's mean vertex, and the box of that polygon in that
\* zone with east_min <= east_max and nort_min <= nort_max.
C13_Claim ==
    (BetweenCalls /\ Returned # {}) => HoldsCall(LastOf(Returned))

\* C13, what the code does: the two entries are those of the last call when
\* that call returned
C13_LastCallReturned ==
    \A t \in 1..NThreads :
        (th[t].pc = "returned" /\ \A u \in (t + 1)..NThreads : NotStarted(u)) =>
            HoldsCall(t)

\* the two entries change only in the two writing steps of roi_process
C13_OnlyRoiProcessWrites ==
    [][\/ cfg' = cfg
       \/ \E t \in 1..NThreads :
             \/ th[t].pc = "zone" /\ th'[t].pc = "bbx" /\ cfg'.utm_bbx = cfg.utm_bbx
             \/ th[t].pc = "bbx" /\ th'[t].pc = "roi" /\ cfg'.utm_zone = cfg.utm_zone]_vars

-----------------------------------------------------------------------------
(* camera_matrix: the Direct Linear Transformation.                        *)
(* Every step of the function but the square roots is a rational           *)
(* operation, so on noise-free input the exact computation has an image in *)
(* the field of integers modulo Prime: a quotient a / b is a * b^-1.  The  *)
(* two scales sqrt(3) / mean_dist and sqrt(2) / mean_dist are not          *)
(* rational; they are inputs of the model, any nonzero element.  Rounding  *)
(* of floating point numbers is not modelled.                              *)

Prime == 10 * 1000 + 7

FMul(a, b) == (a * b) % Prime
FSub(a, b) == (a + (Prime - (b % Prime))) % Prime
FSquare(a) == (a * a) % Prime
RECURSIVE FPow(_, _)
FPow(a, e) ==
    IF e = 0 THEN 1
    ELSE IF e % 2 = 0 THEN FSquare(FPow(a, e \div 2))
    ELSE FMul(a, FSquare(FPow(a, e \div 2)))
\* 1 / a for a # 0
FInv(a) == FPow(a % Prime, Prime - 2)

RECURSIVE FDot(_, _, _)
\* np.dot of two vectors: the sum of u[k] * v[k] over k in 1..n
FDot(u, v, n) == IF n = 0 THEN 0 ELSE (FDot(u, v, n - 1) + u[n] * v[n]) % Prime

Column(B, b) == [a \in 1..Len(B) |-> B[a][b]] \o <<>>
\* np.dot of two matrices
FMatMul(A, B) ==
    [a \in 1..Len(A) |->
        [b \in 1..Len(B[1]) |-> FDot(A[a], Column(B, b), Len(B))] \o <<>>] \o <<>>

RECURSIVE FSum(_, _, _)
FSum(points, col, n) == IF n = 0 THEN 0 ELSE (FSum(points, col, n - 1) + points[n][col]) % Prime
\* np.mean(pts[:, col])
FMean(points, col) == FMul(FSum(points, col, Len(points)), FInv(Len(points)))

\* normalize_3d_points with s for sqrt(3) / mean_dist: [pts, U]
normalize_3d_points(points, s) ==
    LET Centred(cx, cy, cz) ==
            [pts |-> [k \in 1..Len(points) |->
                        <<FMul(s, FSub(points[k][1], cx)), FMul(s, FSub(points[k][2], cy)),
                          FMul(s, FSub(points[k][3], cz))>>] \o <<>>,
             U |-> <<<<s, 0, 0, FSub(0, FMul(s, cx))>>,
                     <<0, s, 0, FSub(0, FMul(s, cy))>>,
                     <<0, 0, s, FSub(0, FMul(s, cz))>>,
                     <<0, 0, 0, 1>>>>]
    IN Centred(FMean(points, 1), FMean(points, 2), FMean(points, 3))

\* normalize_2d_points with s for sqrt(2) / mean_dist: [pts, T]
normalize_2d_points(points, s) ==
    LET Centred(cx, cy) ==
            [pts |-> [k \in 1..Len(points) |->
                        <<FMul(s, FSub(points[k][1], cx)), FMul(s, FSub(points[k][2], cy))>>] \o <<>>,
             T |-> <<<<s, 0, FSub(0, FMul(s, cx))>>,
                     <<0, s, FSub(0, FMul(s, cy))>>,
                     <<0, 0, 1>>>>]
    IN Centred(FMean(points, 1), FMean(points, 2))

\* the two rows of A for one correspondence, lines 786-789
RowsOf(X, x) ==
    LET Xh == <<X[1], X[2], X[3], 1>>
        Block(a) == [j \in 1..4 |-> FMul(a, Xh[j])]
    IN <<<<0, 0, 0, 0>> \o Block(Prime - 1) \o Block(x[2]),
         Xh \o <<0, 0, 0, 0>> \o Block(FSub(0, x[1]))>>

RECURSIVE SystemA(_, _, _)
\* the matrix A of lines 785-789 for the first n correspondences
SystemA(X, x, n) ==
    IF n = 0 THEN <<>> ELSE SystemA(X, x, n - 1) \o RowsOf(X[n], x[n])

ScaleRow(row, a) == [j \in 1..Len(row) |-> FMul(row[j], a)] \o <<>>
\* row - a * piv
SubRow(row, piv, a) == [j \in 1..Len(row) |-> FSub(row[j], FMul(a, piv[j]))] \o <<>>
\* the first row after row r with a nonzero entry in column c, or 0
PivotRow(M, c, r) ==
    LET S == {k \in (r + 1)..Len(M) : M[k][c] # 0}
    IN IF S = {} THEN 0 ELSE SetMin(S)
\* M with row k scaled to a leading 1 and moved to row r + 1, its column c
\* cleared in every other row
Eliminated(M, c, r, k) ==
    LET Cleared(piv) ==
            [j \in 1..Len(M) |->
                IF j = r + 1 THEN piv
                ELSE IF j = k THEN SubRow(M[r + 1], piv, M[r + 1][c])
                ELSE SubRow(M[j], piv, M[j][c])] \o <<>>
    IN Cleared(ScaleRow(M[k], FInv(M[k][c])))

RECURSIVE Rref(_, _, _, _)
\* the reduced row echelon form of M from column c on, r pivots found so far
\* in the columns pivs: [M, pivs]
Rref(M, c, r, pivs) ==
    IF c > Len(M[1]) THEN [M |-> M, pivs |-> pivs]
    ELSE IF PivotRow(M, c, r) = 0 THEN Rref(M, c + 1, r, pivs)
    ELSE Rref(Eliminated(M, c, r, PivotRow(M, c, r)), c + 1, r + 1, Append(pivs, c))

\* the vector of the null space of R.M with 1 in the free column f and 0 in
\* the other free columns
NullVector(R, f) ==
    [j \in 1..Len(R.M[1]) |->
        IF j = f THEN 1
        ELSE IF \E t \in 1..Len(R.pivs) : R.pivs[t] = j
        THEN FSub(0, R.M[CHOOSE t \in 1..Len(R.pivs) : R.pivs[t] = j][f])
        ELSE 0] \o <<>>

\* np.linalg.svd(A), V[-1, :] of lines 796-797 on exact data: a vector that
\* spans the null space of A when its rank is 11; one of a basis of the null
\* space when the rank is lower (the singular vector numpy returns is then
\* any unit vector of that space).  The norm of the vector is left out.
LastSingularVectors(A) ==
    LET Basis(R) ==
            {NullVector(R, f) : f \in {j \in 1..Len(A[1]) : \A t \in 1..Len(R.pivs) : R.pivs[t] # j}}
    IN Basis(Rref(A, 1, 0, <<>>))

\* V[-1, :].reshape((3, 4))
Reshape(v) == <<SubSeq(v, 1, 4), SubSeq(v, 5, 8), SubSeq(v, 9, 12)>>

\* the cofactor of T[a][b] in a 3x3 matrix
Cofactor(T, a, b) ==
    LET Rest(k) == IF k = 1 THEN <<2, 3>> ELSE IF k = 2 THEN <<1, 3>> ELSE <<1, 2>>
        Minor(r, c) == FSub(FMul(T[r[1]][c[1]], T[r[2]][c[2]]), FMul(T[r[1]][c[2]], T[r[2]][c[1]]))
    IN IF (a + b) % 2 = 0 THEN Minor(Rest(a), Rest(b)) ELSE FSub(0, Minor(Rest(a), Rest(b)))
\* np.linalg.inv of a 3x3 matrix
FInv3(T) ==
    LET Adjugate(d) ==
            [a \in 1..3 |-> [b \in 1..3 |-> FMul(Cofactor(T, b, a), d)] \o <<>>] \o <<>>
    IN Adjugate(FInv((FMul(T[1][1], Cofactor(T, 1, 1)) + FMul(T[1][2], Cofactor(T, 1, 2))
                      + FMul(T[1][3], Cofactor(T, 1, 3))) % Prime))

\* line 801 with T in the place of its inverse
Denormalize_T(T, P, U) == FMatMul(FMatMul(T, P), U)
\* line 801: P = T^-1 * P * U
Denormalize(T, P, U) == FMatMul(FMatMul(FInv3(T), P), U)

\* camera_matrix(X, x): the matrices the function can return, one for each
\* vector the decomposition can return
camera_matrix(X, x, s3, s2) ==
    LET Solve(n3, n2) ==
            {Denormalize(n2.T, Reshape(v), n3.U) :
                v \in LastSingularVectors(SystemA(n3.pts, n2.pts, Len(n2.pts)))}
    IN Solve(normalize_3d_points(X, s3), normalize_2d_points(x, s2))

\* the image of the world point X under the 3x4 matrix P; the third
\* homogeneous coordinate must not vanish
Image(P, X) ==
    LET Xh == <<X[1], X[2], X[3], 1>>
        Divided(w) == <<FMul(FDot(P[1], Xh, 4), w), FMul(FDot(P[2], Xh, 4), w)>>
    IN Divided(FInv(FDot(P[3], Xh, 4)))
Visible(P, X) == FDot(P[3], <<X[1], X[2], X[3], 1>>, 4) # 0

MaxPoints == 7
\* world points: the first six lie in the plane z = 0
Pool ==
    <<<<0, 0, 0>>, <<1, 0, 0>>, <<0, 1, 0>>, <<2, 3, 0>>, <<3, 1, 0>>, <<1, 2, 0>>,
      <<0, 0, 1>>, <<1, 1, 2>>, <<2, 1, 3>>, <<1, 3, 1>>>>
Cameras3x4 ==
    {<<<<2, 0, 1, 3>>, <<0, 2, 1, 1>>, <<0, 0, 1, 4>>>>,
     <<<<1, 2, 0, 1>>, <<0, 1, 3, 2>>, <<1, 0, 1, 5>>>>,
     <<<<3, 0, 0, 2>>, <<0, 3, 0, 7>>, <<0, 0, 0, 1>>>>}
Scales == {1, 3}

RECURSIVE Pick(_, _)
\* the points of Pool with an index in S, in the order of Pool[1..k]
Pick(S, k) ==
    IF k = 0 THEN <<>>
    ELSE IF k \in S THEN Append(Pick(S, k - 1), Pool[k])
    ELSE Pick(S, k - 1)

Images(P, X) == [k \in 1..Len(X) |-> Image(P, X[k])] \o <<>>

CameraMatrixCalls ==
    {[op |-> "camera_matrix", P_true |-> P, X |-> Pick(S, Len(Pool)),
      x |-> Images(P, Pick(S, Len(Pool))), s3 |-> s3, s2 |-> s2] :
        P \in Cameras3x4,
        S \in {S \in SUBSET (1..Len(Pool)) : Cardinality(S) \in 6..MaxPoints},
        s3 \in Scales, s2 \in Scales}

\* camera_matrix(X, x) runs
CallCameraMatrix ==
    /\ call.op = "camera_matrix"
    /\ ret = None
    /\ \E P \in camera_matrix(call.X, call.x, call.s3, call.s2) :
          ret' = [kind |-> "P", P |-> P]
    /\ UNCHANGED <<cam, pts, h0, h0_inc, err, i, pc, alone, cfg, call, out, th>>

InitDlt ==
    /\ NoHeight
    /\ cfg = DefaultCfg
    /\ call \in CameraMatrixCalls
    /\ ret = None
    /\ out = <<>>
    /\ th = NoThreads

NextDlt == CallCameraMatrix
SpecDlt == InitDlt /\ [][NextDlt]_vars

CameraMatrixReturned == call.op = "camera_matrix" /\ ret # None

\* the world points of the call determine the matrix: the system A built
\* from them and their images has rank 11
NonDegenerate ==
    Len(Rref(SystemA(call.X, call.x, Len(call.X)), 1, 0, <<>>).pivs) = 11

Flat(P) == P[1] \o P[2] \o P[3]
\* P = c * Q for a scalar c # 0
UpToScale(P, Q) ==
    LET Parallel(u, v) ==
            /\ \E a \in 1..12 : u[a] # 0
            /\ \A a, b \in 1..12 : FMul(u[a], v[b]) = FMul(u[b], v[a])
    IN Parallel(Flat(P), Flat(Q))

====
